---------------------------- MODULE Spec2Model ----------------------------
(***************************************************************************)
(* A model of ContentGenerator (src/app.py): the text normaliser, the      *)
(* concept extractor, the assignment synthesiser, the quiz synthesiser     *)
(* with its per-sentence question builder and distractor generator, and    *)
(* generate_content, which chains them.                                    *)
(*                                                                         *)
(* Python strings are TLA+ strings; TLC evaluates Len, Head, Tail, SubSeq  *)
(* and \o on them, so every string function below works character by      *)
(* character, as the Python built-in it models does.  Python lists are     *)
(* sequences.  The random module is nondeterminism: every random.choice,   *)
(* random.sample and random.shuffle is an \E over all its outcomes.        *)
(***************************************************************************)
EXTENDS Integers, Sequences, FiniteSets, TLC

(***************************************************************************)
(* Characters.                                                             *)
(***************************************************************************)
Ch(s, i) == SubSeq(s, i, i)

UpperLetters == "ABCDEFGHIJKLMNOPQRSTUVWXYZ"
LowerLetters == "abcdefghijklmnopqrstuvwxyz"
DigitChars   == "0123456789"

UpperSet == {Ch(UpperLetters, i) : i \in 1..Len(UpperLetters)}
LowerSet == {Ch(LowerLetters, i) : i \in 1..Len(LowerLetters)}
DigitSet == {Ch(DigitChars, i) : i \in 1..Len(DigitChars)}

\* [A-Za-z]
LetterSet == UpperSet \cup LowerSet
\* \w of the re module, on ASCII text: letters, digits and the underscore
WordCharSet == LetterSet \cup DigitSet \cup {"_"}
\* \s of the re module and the default of str.strip / str.split, on ASCII text
Whitespace == {" ", "\t", "\n", "\r"}

ToLower == [c \in UpperSet |->
              Ch(LowerLetters, CHOOSE i \in 1..Len(UpperLetters) : Ch(UpperLetters, i) = c)]

LowerChar(c) == IF c \in UpperSet THEN ToLower[c] ELSE c

\* str.isupper() of a one-character string
IsUpper(c) == c \in UpperSet

(***************************************************************************)
(* String functions of the Python runtime that the program calls.          *)
(***************************************************************************)
\* the element of a one-element set.  The({e(v) : v \in {s}}) is e(s) with the
\* argument s evaluated once, before e is, as the argument of a Python call is
The(S) == CHOOSE r \in S : TRUE

\* the least element of a set of positions, or none when the set is empty
Least(S, none) ==
    The({IF T = {} THEN none ELSE CHOOSE j \in T : \A k \in T : j <= k : T \in {S}})

\* the greatest element of a set of positions, or none when the set is empty
Greatest(S, none) ==
    The({IF T = {} THEN none ELSE CHOOSE j \in T : \A k \in T : k <= j : T \in {S}})

\* the first position at or after i whose character is in chars (Len(s)+1 if none)
NextIn(s, chars, i) == Least({j \in i..Len(s) : Ch(s, j) \in chars}, Len(s) + 1)

\* the first position at or after i whose character is not in chars (Len(s)+1 if none)
NextNotIn(s, chars, i) == Least({j \in i..Len(s) : Ch(s, j) \notin chars}, Len(s) + 1)

\* the last position whose character is not in chars (0 if none)
LastNotIn(s, chars) == Greatest({j \in 1..Len(s) : Ch(s, j) \notin chars}, 0)

RECURSIVE LowerFrom(_, _)
LowerFrom(s, i) ==
    IF i > Len(s) THEN "" ELSE LowerChar(Ch(s, i)) \o LowerFrom(s, i + 1)

\* str.lower()
Lower(s) == The({LowerFrom(v, 1) : v \in {s}})

\* str.lstrip(chars)
LStripChars(s, chars) == The({SubSeq(v, NextNotIn(v, chars, 1), Len(v)) : v \in {s}})

\* str.rstrip(chars)
RStripChars(s, chars) == The({SubSeq(v, 1, LastNotIn(v, chars)) : v \in {s}})

\* str.strip(chars): the characters of chars removed from both ends
StripChars(s, chars) == RStripChars(LStripChars(s, chars), chars)

\* str.strip()
Strip(s) == StripChars(s, Whitespace)

\* s[:n]
Prefix(s, n) == The({SubSeq(v, 1, IF Len(v) < n THEN Len(v) ELSE n) : v \in {s}})

\* s[:n] of a list
Take(seq, n) == The({SubSeq(v, 1, IF Len(v) < n THEN Len(v) ELSE n) : v \in {seq}})

\* whether sub occurs in s at position i
OccursAt(s, sub, i) == i + Len(sub) - 1 <= Len(s) /\ SubSeq(s, i, i + Len(sub) - 1) = sub

\* sub in s
Contains(s, sub) ==
    The({\E i \in 1..(Len(v) + 1) : OccursAt(v, w, i) :
           v \in {s}, w \in {sub}})

\* the first position at or after i where sub occurs in s (Len(s)+1 if none)
NextOccurrence(s, sub, i) == Least({j \in i..Len(s) : OccursAt(s, sub, j)}, Len(s) + 1)

RECURSIVE ReplaceFrom(_, _, _, _)
ReplaceFrom(s, old, new, i) ==
    LET j == NextOccurrence(s, old, i)
    IN  IF j > Len(s) THEN SubSeq(s, i, Len(s))
        ELSE SubSeq(s, i, j - 1) \o new \o ReplaceFrom(s, old, new, j + Len(old))

RECURSIVE Interleave(_, _, _)
Interleave(s, new, i) ==
    IF i > Len(s) THEN new ELSE new \o Ch(s, i) \o Interleave(s, new, i + 1)

\* str.replace(old, new): every non-overlapping occurrence of old, scanning from
\* the left, becomes new; an empty old matches before every character and at the end
Replace(s, old, new) ==
    The({IF w = "" THEN Interleave(v, new, 1) ELSE ReplaceFrom(v, w, new, 1) :
           v \in {s}, w \in {old}})

\* the first occurrence of old in s replaced by new (s itself if there is none)
ReplaceAt(s, old, new, j) ==
    IF old = "" THEN new \o s
    ELSE IF j > Len(s) THEN s
    ELSE SubSeq(s, 1, j - 1) \o new \o SubSeq(s, j + Len(old), Len(s))

\* str.replace(old, new, 1): only the first occurrence of old becomes new
ReplaceFirst(s, old, new) ==
    The({ReplaceAt(v, w, new, NextOccurrence(v, w, 1)) :
           v \in {s}, w \in {old}})

RECURSIVE SubSpaces(_, _)
SubSpaces(s, i) ==
    IF i > Len(s) THEN ""
    ELSE IF Ch(s, i) \in Whitespace
         THEN " " \o SubSpaces(s, NextNotIn(s, Whitespace, i))
         ELSE LET j == NextIn(s, Whitespace, i)
              IN  SubSeq(s, i, j - 1) \o SubSpaces(s, j)

\* re.sub(r'\s+', ' ', s): every maximal run of whitespace becomes one space
SubWhitespace(s) == The({SubSpaces(v, 1) : v \in {s}})

RECURSIVE SplitRuns(_, _, _)
SplitRuns(s, seps, i) ==
    LET j == NextIn(s, seps, i)
    IN  IF j > Len(s) THEN <<SubSeq(s, i, Len(s))>>
        ELSE <<SubSeq(s, i, j - 1)>> \o SplitRuns(s, seps, NextNotIn(s, seps, j))

\* re.split('[seps]+', s): the pieces between the maximal runs of separators,
\* empty pieces at the ends included
ReSplit(s, seps) == The({SplitRuns(v, seps, 1) : v \in {s}})

RECURSIVE SplitTokens(_, _)
SplitTokens(s, i) ==
    LET a == NextNotIn(s, Whitespace, i)
        b == NextIn(s, Whitespace, a)
    IN  IF a > Len(s) THEN <<>> ELSE <<SubSeq(s, a, b - 1)>> \o SplitTokens(s, b)

\* str.split(): the maximal runs of non-whitespace characters
Split(s) == The({SplitTokens(v, 1) : v \in {s}})

RECURSIVE FindWordsFrom(_, _)
\* A maximal run of letters s[a..b-1] matches \b[A-Za-z]+\b when neither neighbour
\* is a \w character; no shorter piece of the run has a \b at both ends.
FindWordsFrom(s, i) ==
    LET a == NextIn(s, LetterSet, i)
        b == NextNotIn(s, LetterSet, a)
        bounded == /\ (a = 1 \/ Ch(s, a - 1) \notin WordCharSet)
                   /\ (b > Len(s) \/ Ch(s, b) \notin WordCharSet)
    IN  IF a > Len(s) THEN <<>>
        ELSE (IF bounded THEN <<SubSeq(s, a, b - 1)>> ELSE <<>>) \o FindWordsFrom(s, b)

\* re.findall(r'\b[A-Za-z]+\b', s)
FindWords(s) == The({FindWordsFrom(v, 1) : v \in {s}})

(***************************************************************************)
(* List helpers.                                                           *)
(***************************************************************************)
Range(seq) == {seq[i] : i \in 1..Len(seq)}

RECURSIVE Flatten(_)
\* the concatenation of a list of lists
Flatten(seqs) == IF seqs = <<>> THEN <<>> ELSE Head(seqs) \o Flatten(Tail(seqs))


\* the number of positions of seq that hold x
Count(seq, x) == Cardinality({i \in 1..Len(seq) : seq[i] = x})

\* seq without the later repetitions of an element: the keys of a dict filled in
\* the order of seq
FirstSeen(seq) ==
    LET keep == {i \in 1..Len(seq) : \A j \in 1..(i - 1) : seq[j] # seq[i]}
        RECURSIVE Build(_)
        Build(i) == IF i > Len(seq) THEN <<>>
                    ELSE (IF i \in keep THEN <<seq[i]>> ELSE <<>>) \o Build(i + 1)
    IN  Build(1)

\* list.index(x): the first position holding x, counted from 0
IndexOf(seq, x) == (CHOOSE i \in 1..Len(seq) : seq[i] = x /\ \A j \in 1..(i - 1) : seq[j] # x) - 1

(***************************************************************************)
(* Constants of the program.                                               *)
(***************************************************************************)
essay_starters ==
    << "Analyze and discuss",
       "Compare and contrast",
       "Evaluate the significance of",
       "Explain the relationship between",
       "Critically examine",
       "Describe the impact of",
       "What are the main factors that contribute to",
       "How does",
       "Why is it important to understand" >>

mc_starters ==
    << "What is",
       "Which of the following",
       "What best describes",
       "According to the text, what",
       "Which statement is true about",
       "What can be inferred about",
       "The main idea of",
       "What is the primary purpose of" >>

\* re.split(r'[.!?]+', ...)
SentenceEnds == {".", "!", "?"}
\* .strip('.,!?')
AnswerPunctuation == {".", ",", "!", "?"}
\* capitalised words that are never concepts
ConceptStoplist == {"the", "this", "that", "they", "there"}
\* words that are never answers
ConnectiveStoplist == {"through", "because", "however", "therefore", "although"}

BlankMarker == "______"

\* len(word) > 3
MinWordLen == 3
\* len(word) > 4 of a frequent word
MinFrequentLen == 4
\* freq > 1
MinFrequency == 1
\* frequent_words[:5]
MaxFrequentWords == 5
\* list(set(concepts))[:10]
MaxConcepts == 10
\* len(word) > 4 of an answer candidate
MinAnswerLen == 4
\* sentence[:50]
ContextLen == 50
\* len(s.strip()) > 20
MinSentenceLen == 20
\* len(sentences) * 2
AttemptsPerSentence == 2
\* len(questions) < 3
QuizSize == 3
\* other_concepts[:2]
MaxConceptDistractors == 2
\* distractors[:3]
NumDistractors == 3
\* chr(65 + correct_index)
OrdA == 65

FallbackAssignment1 ==
    "Analyze the main themes presented in the provided text and discuss their significance with supporting examples."
FallbackAssignment2 ==
    "Evaluate the effectiveness of the arguments presented in the text. What evidence supports the main points, and what questions remain unanswered?"

\* Python's None, and a returned dict: a function's result is a list of 0 or 1 records
None == <<>>
Some(q) == <<q>>

\* chr(n) for the code points of the capital letters
Chr(n) == Ch(UpperLetters, n - OrdA + 1)

(***************************************************************************)
(* clean_text                                                              *)
(***************************************************************************)
clean_text(raw) == SubWhitespace(Strip(raw))

(***************************************************************************)
(* extract_key_concepts: the list before list(set(...)), and the orders    *)
(* in which the set may be listed.                                         *)
(***************************************************************************)
\* every word of every sentence, in text order
SentenceWords(t) ==
    LET segs == ReSplit(t, SentenceEnds)
    IN  Flatten([i \in 1..Len(segs) |-> FindWords(segs[i])])

LongWords(t) == SelectSeq(SentenceWords(t), LAMBDA w : Len(w) > MinWordLen)

IsCapitalisedConcept(w) == IsUpper(Head(w)) /\ Lower(w) \notin ConceptStoplist

\* the words appended to concepts inside the loop
CapitalisedConcepts(t) == SelectSeq(LongWords(t), IsCapitalisedConcept)

\* frequent_words: the keys of word_freq, in insertion order, that are frequent and long
FrequentWords(t) ==
    LET lowered == [i \in 1..Len(LongWords(t)) |-> Lower(LongWords(t)[i])]
    IN  SelectSeq(FirstSeen(lowered),
                  LAMBDA w : Count(lowered, w) > MinFrequency /\ Len(w) > MinFrequentLen)

\* concepts, just before the return statement
ConceptCandidates(t) == CapitalisedConcepts(t) \o Take(FrequentWords(t), MaxFrequentWords)

(***************************************************************************)
(* list(set(concepts)): a Python set lists its elements in hash order, and *)
(* the hash of a string changes from one process to the next, so the       *)
(* order is any order.  Every order is a successor for a set of at most    *)
(* MaxFullOrder elements; a larger set has too many, and is listed in      *)
(* first-seen order or its reverse, starting at any element.               *)
(***************************************************************************)
MaxFullOrder == 3

Permuted(seq, p) == [i \in 1..Len(seq) |-> seq[p[i]]]

Rotated(seq, k) == SubSeq(seq, k + 1, Len(seq)) \o SubSeq(seq, 1, k)

Reversed(seq) == [i \in 1..Len(seq) |-> seq[Len(seq) + 1 - i]]

SetOrders(seq) ==
    LET base == FirstSeen(seq)
        n    == Len(base)
    IN  IF n = 0 THEN {<<>>}
        ELSE IF n <= MaxFullOrder
             THEN {Permuted(base, p) : p \in Permutations(1..n)}
             ELSE {Rotated(base, k) : k \in 0..(n - 1)}
                  \cup {Rotated(Reversed(base), k) : k \in 0..(n - 1)}

\* extract_key_concepts without the [:10] of its return statement
extract_key_concepts_NoCap(t) == SetOrders(ConceptCandidates(t))

\* the values extract_key_concepts may return for text t
extract_key_concepts(t) == {Take(o, MaxConcepts) : o \in SetOrders(ConceptCandidates(t))}

(***************************************************************************)
(* generate_assignments                                                    *)
(***************************************************************************)
\* assignment1 for main_concept = cs[i] and starter = essay_starters[st]
Assignment1(cs, i, st) ==
    essay_starters[st] \o " " \o Lower(cs[i])
    \o " as discussed in the provided material. Support your analysis with specific examples and explain its broader implications."

\* assignment2 for concept1, concept2 = cs[i], cs[j]
Assignment2(cs, i, j) ==
    "Compare and contrast " \o Lower(cs[i]) \o " and " \o Lower(cs[j])
    \o ". Discuss how these concepts relate to each other and their importance in the overall context."

\* two random.choice calls in place of random.sample: the same position may come twice
SamplePairs_WithReplacement(cs) == (1..Len(cs)) \X (1..Len(cs))

\* random.sample(cs, 2): two different positions, in either order
SamplePairs(cs) == {p \in (1..Len(cs)) \X (1..Len(cs)) : p[1] # p[2]}

FirstAssignments(cs) ==
    IF cs # <<>>
    THEN {Assignment1(cs, i, st) : i \in 1..Len(cs), st \in 1..Len(essay_starters)}
    ELSE {FallbackAssignment1}

SecondAssignments(cs) ==
    IF Len(cs) >= 2
    THEN {Assignment2(cs, p[1], p[2]) : p \in SamplePairs(cs)}
    ELSE {FallbackAssignment2}

\* the values generate_assignments may return
generate_assignments(cs) == {<<a1, a2>> : a1 \in FirstAssignments(cs), a2 \in SecondAssignments(cs)}

(***************************************************************************)
(* generate_distractors                                                    *)
(***************************************************************************)
\* the comparison without the two .lower() calls
IsOtherConcept_CaseSensitive(c, answer) == c # answer

\* the list comprehension without its condition
IsOtherConcept_Always(c, answer) == TRUE

IsOtherConcept(c, answer) == Lower(c) # Lower(answer)

OtherConcepts(answer, cs) == SelectSeq(cs, LAMBDA c : IsOtherConcept(c, answer))

GenericDistractors(answer) ==
    << "Not " \o Lower(answer), "Opposite of " \o Lower(answer), "None of the above" >>

generate_distractors(answer, cs) ==
    Take(Take(OtherConcepts(answer, cs), MaxConceptDistractors) \o GenericDistractors(answer),
         NumDistractors)

(***************************************************************************)
(* create_multiple_choice_question                                         *)
(***************************************************************************)
IsAnswerCandidate(w) == Len(w) > MinAnswerLen /\ Lower(w) \notin ConnectiveStoplist

AnswerCandidates(s) == SelectSeq(Split(Strip(s)), IsAnswerCandidate)

\* the answer lowercased as well as stripped
CorrectAnswer_Lowered(s, k) == Lower(StripChars(AnswerCandidates(s)[k], AnswerPunctuation))

\* random.choice(answer_candidates).strip('.,!?') for the k-th candidate
CorrectAnswer(s, k) == StripChars(AnswerCandidates(s)[k], AnswerPunctuation)

\* sentence.replace(correct_answer, "______", 1)
Blanked_FirstOnly(s, answer) == ReplaceFirst(Strip(s), answer, BlankMarker)

Blanked(s, answer) == Replace(Strip(s), answer, BlankMarker)

\* whether the alternative question format is used
NeedsStarter(s, answer) == ~Contains(Blanked(s, answer), BlankMarker)

QuestionText(s, answer, st) ==
    IF NeedsStarter(s, answer)
    THEN mc_starters[st] \o " mentioned in the following context: '"
         \o Prefix(Strip(s), ContextLen) \o "...'?"
    ELSE Blanked(s, answer)

\* random.shuffle(options): any rearrangement
Shuffles(options) ==
    UNION {{Permuted(v, p) : p \in Permutations(1..Len(v))} : v \in {options}}

\* the letter taken before random.shuffle, when the answer is still first
MCRecord_IndexBeforeShuffle(question_text, options, answer) ==
    [ question       |-> question_text,
      options        |-> options,
      correct_answer |-> Chr(OrdA),
      correct_text   |-> answer ]

\* the record returned for the question text and the shuffled options
MCRecord(question_text, options, answer) ==
    [ question       |-> question_text,
      options        |-> options,
      correct_answer |-> Chr(OrdA + IndexOf(options, answer)),
      correct_text   |-> answer ]

\* the starters the call may draw: one is drawn only for the alternative format
StarterChoices(s, answer) == IF NeedsStarter(s, answer) THEN 1..Len(mc_starters) ELSE {1}

\* the records the call may return once the k-th candidate is chosen
MCRecords(s, cs, k) ==
    UNION { { MCRecord(t, o, answer) :
                t \in {QuestionText(s, answer, st) : st \in StarterChoices(s, answer)},
                o \in Shuffles(<<answer>> \o generate_distractors(answer, cs)) } :
            answer \in {CorrectAnswer(s, k)} }

\* the values create_multiple_choice_question may return
create_multiple_choice_question(s, cs) ==
    IF Strip(s) = "" \/ AnswerCandidates(s) = <<>>
    THEN {None}
    ELSE {Some(q) : q \in UNION {MCRecords(s, cs, k) : k \in 1..Len(AnswerCandidates(s))}}

(***************************************************************************)
(* create_generic_question                                                 *)
(***************************************************************************)
ConceptOptions ==
    << "It is a central theme", "It is mentioned briefly",
       "It is not relevant", "It contradicts the main argument" >>

MaterialOptions ==
    << "The content presents a clear argument", "The content lacks supporting evidence",
       "The content is purely descriptive", "The content is contradictory" >>

GenericRecord(text, options) ==
    [ question       |-> text,
      options        |-> options,
      correct_answer |-> "A",
      correct_text   |-> options[1] ]

\* create_generic_question without its else branch: random.choice([]) raises
create_generic_question_NoFallback(cs) ==
    { GenericRecord("What is the significance of " \o Lower(cs[i])
                    \o " in the provided material?", ConceptOptions) : i \in 1..Len(cs) }

\* the values create_generic_question may return (its index argument is not read)
create_generic_question(cs) ==
    IF cs # <<>>
    THEN { GenericRecord("What is the significance of " \o Lower(cs[i])
                         \o " in the provided material?", ConceptOptions) : i \in 1..Len(cs) }
    ELSE { GenericRecord("Based on the provided material, which statement is most accurate?",
                         MaterialOptions) }

(***************************************************************************)
(* generate_quiz_questions: the sentence pool                              *)
(***************************************************************************)
IsPoolSentence(seg) == Len(Strip(seg)) > MinSentenceLen

SentencePool(t) ==
    LET kept == SelectSeq(ReSplit(t, SentenceEnds), IsPoolSentence)
    IN  [i \in 1..Len(kept) |-> Strip(kept[i])]

(***************************************************************************)
(* The state: the arguments, locals and results of the calls in progress.  *)
(***************************************************************************)
VARIABLES
    pc,             \* the statement to run next
    input_text,     \* generate_content: its argument
    text,           \* the cleaned text
    concepts,       \* the ConceptSet
    assignments,    \* the result of generate_assignments
    sentences,      \* generate_quiz_questions: the sentence pool
    outcomes,       \* for each pool sentence, the values the builder may return for it
    max_attempts,
    attempts,
    questions,
    sentence,       \* the sentence of the last attempt
    question,       \* what the builder returned in the last attempt
    origin,         \* history: for each element of questions, the function that made it
    calls,          \* history: the calls of create_multiple_choice_question so far
    correct_answer, \* generate_distractors: its argument
    distractors,    \* generate_distractors: its result
    result          \* the result of generate_content

vars == << pc, input_text, text, concepts, assignments, sentences, outcomes, max_attempts, attempts,
           questions, sentence, question, origin, calls, correct_answer, distractors, result >>

quizVars == << sentences, outcomes, max_attempts, attempts, questions, sentence, question, origin,
               calls >>

(***************************************************************************)
(* generate_content, statement by statement.                               *)
(***************************************************************************)
\* text = self.clean_text(input_text)
CleanText ==
    /\ pc = "clean_text"
    /\ text' = clean_text(input_text)
    /\ pc' = "extract_key_concepts"
    /\ UNCHANGED << input_text, concepts, assignments, quizVars, correct_answer,
                    distractors, result >>

\* concepts = self.extract_key_concepts(text)
ExtractKeyConcepts ==
    /\ pc = "extract_key_concepts"
    /\ \E cs \in extract_key_concepts(text) : concepts' = cs
    /\ pc' = "generate_assignments"
    /\ UNCHANGED << input_text, text, assignments, quizVars, correct_answer,
                    distractors, result >>

\* assignments = self.generate_assignments(text, concepts)
GenerateAssignments ==
    /\ pc = "generate_assignments"
    /\ \E a \in generate_assignments(concepts) : assignments' = a
    /\ pc' = "generate_quiz_questions"
    /\ UNCHANGED << input_text, text, concepts, quizVars, correct_answer,
                    distractors, result >>

(***************************************************************************)
(* generate_quiz_questions, one action for the statements before the       *)
(* loops, one for each turn of each loop and one for each loop's exit.     *)
(***************************************************************************)
QuizBegin ==
    /\ pc = "generate_quiz_questions"
    /\ sentences' = SentencePool(text)
    /\ outcomes' = [i \in 1..Len(SentencePool(text)) |->
                       create_multiple_choice_question(SentencePool(text)[i], concepts)]
    /\ questions' = <<>>
    /\ origin' = <<>>
    /\ calls' = 0
    /\ attempts' = 0
    /\ max_attempts' = Len(SentencePool(text)) * AttemptsPerSentence
    /\ pc' = "main_loop"
    /\ UNCHANGED << input_text, text, concepts, assignments, sentence, question,
                    correct_answer, distractors, result >>

\* the loop condition without its bound on the attempts
MainLoopCondition_NoAttemptBound == Len(questions) < QuizSize

MainLoopCondition == Len(questions) < QuizSize /\ attempts < max_attempts

\* if question:
Accepted_NoDuplicateCheck(q, qs) == q # None

\* if question and question not in questions
Accepted(q, qs) == q # None /\ q[1] \notin Range(qs)

QuizAttempt ==
    /\ pc = "main_loop"
    /\ MainLoopCondition
    /\ IF sentences # <<>>
       THEN \E i \in 1..Len(sentences) :
              \E q \in outcomes[i] :
                /\ sentence' = sentences[i]
                /\ question' = q
                /\ calls' = calls + 1
                /\ IF Accepted(q, questions)
                   THEN /\ questions' = Append(questions, q[1])
                        /\ origin' = Append(origin, "create_multiple_choice_question")
                   ELSE UNCHANGED << questions, origin >>
       ELSE UNCHANGED << sentence, question, questions, origin, calls >>
    /\ attempts' = attempts + 1
    /\ UNCHANGED << pc, input_text, text, concepts, assignments, sentences, outcomes,
                    max_attempts, correct_answer, distractors, result >>

\* while len(questions) < 3: questions.append(self.create_generic_question(...))
RECURSIVE Filled(_, _)
\* the lists the second loop may leave, from the list qs
Filled(qs, cs) ==
    IF Len(qs) < QuizSize
    THEN UNION {Filled(Append(qs, g), cs) : g \in create_generic_question(cs)}
    ELSE {qs}

\* the main loop is left, the second loop runs to its end, and questions is returned
QuizFill ==
    /\ pc = "main_loop"
    /\ ~MainLoopCondition
    /\ \E qs \in Filled(questions, concepts) :
         /\ questions' = qs
         /\ origin' = origin \o [i \in 1..(Len(qs) - Len(questions)) |-> "create_generic_question"]
    /\ pc' = "return"
    /\ UNCHANGED << input_text, text, concepts, assignments, sentences, outcomes,
                    max_attempts, attempts, sentence, question, calls, correct_answer,
                    distractors, result >>

\* the return statement of generate_content
ReturnContent ==
    /\ pc = "return"
    /\ result' = Some([ assignments    |-> assignments,
                        quiz_questions |-> questions,
                        concepts_found |-> concepts ])
    /\ pc' = "done"
    /\ UNCHANGED << input_text, text, concepts, assignments, quizVars, correct_answer,
                    distractors >>

\* a call of generate_distractors on its own
GenerateDistractors ==
    /\ pc = "generate_distractors"
    /\ distractors' = generate_distractors(correct_answer, concepts)
    /\ pc' = "distractors_returned"
    /\ UNCHANGED << input_text, text, concepts, assignments, quizVars, correct_answer,
                    result >>

(***************************************************************************)
(* Inputs and specifications.  Each specification is one call of one       *)
(* method of ContentGenerator, on every argument of a bounded set.         *)
(***************************************************************************)
\* the lists of at most n elements of S
SeqsUpTo(S, n) == UNION {[1..k -> S] : k \in 0..n}

RECURSIVE Join(_)
\* "".join(parts)
Join(parts) == IF parts = <<>> THEN "" ELSE Head(parts) \o Join(Tail(parts))

\* the strings of at most n characters of S
Strings(S, n) == {Join(cs) : cs \in SeqsUpTo(S, n)}

NoText == input_text = "" /\ text = ""

NoQuiz ==
    /\ sentences = <<>>
    /\ outcomes = <<>>
    /\ max_attempts = 0
    /\ attempts = 0
    /\ questions = <<>>
    /\ sentence = ""
    /\ question = None
    /\ origin = <<>>
    /\ calls = 0

NoDistractors == correct_answer = "" /\ distractors = <<>>

(***************************************************************************)
(* Spec: generate_content(input_text).  The inputs are the blank texts of  *)
(* at most MaxBlank whitespace characters and a few texts with sentences   *)
(* of every kind: too short for the pool, in the pool with and without an  *)
(* answer candidate, with concepts that are and are not the answer.        *)
(***************************************************************************)
MaxBlank == 2

BlankInputs == Strings({" ", "\n", "\t"}, MaxBlank)

SampleInputs ==
    { "this is a test.",
      " This  is\n\ta test. ",
      "Plants grow. There plants grow!",
      "it is so, because of us.",
      "Plants feed on the sun?",
      "Plants  feed on\nthe Nile." }

Inputs == BlankInputs \cup SampleInputs

Init ==
    /\ pc = "clean_text"
    /\ input_text \in Inputs
    /\ text = ""
    /\ concepts = <<>>
    /\ assignments = <<>>
    /\ NoQuiz
    /\ NoDistractors
    /\ result = None

Next ==
    \/ CleanText
    \/ ExtractKeyConcepts
    \/ GenerateAssignments
    \/ QuizBegin
    \/ QuizAttempt
    \/ QuizFill
    \/ ReturnContent

Spec == Init /\ [][Next]_vars

(***************************************************************************)
(* SpecExtract: extract_key_concepts(text), on every text of at most       *)
(* MaxWords words of a small vocabulary, on the first n of a list of       *)
(* capitalised words for every n up to MaxNames, and on the first n of a   *)
(* list of repeated words for every n up to MaxRepeated.                   *)
(***************************************************************************)
MaxWords == 3
MaxNames == 11
MaxRepeated == 6

ExtractVocabulary == {"Plants ", "plants. ", "There ", "Nile? ", "sun2 ", "grows,"}

NameList ==
    << "Alfa", "Beta", "Gamma", "Delta", "Echo", "Golf", "Hotel", "India",
       "Kilo", "Lima", "Mike", "Oscar", "Papa" >>

RepeatedList ==
    << "alpha", "bravo", "delta", "hotel", "india", "oscar", "romeo", "tango" >>

Min(a, b) == IF a < b THEN a ELSE b

\* the first n names, one sentence each
NamesText(n) == Join([i \in 1..n |-> NameList[i] \o ". "])

\* the first n repeated words, each twice
RepeatedText(n) == Join([i \in 1..n |-> RepeatedList[i] \o " " \o RepeatedList[i] \o " "])

ExtractTexts ==
    {Join(ws) : ws \in SeqsUpTo(ExtractVocabulary, MaxWords)}
    \cup {NamesText(n) : n \in 0..Min(MaxNames, Len(NameList))}
    \cup {RepeatedText(n) : n \in 0..Min(MaxRepeated, Len(RepeatedList))}

InitExtract ==
    /\ pc = "extract_key_concepts"
    /\ input_text = ""
    /\ text \in ExtractTexts
    /\ concepts = <<>>
    /\ assignments = <<>>
    /\ NoQuiz
    /\ NoDistractors
    /\ result = None

NextExtract == ExtractKeyConcepts

SpecExtract == InitExtract /\ [][NextExtract]_vars

(***************************************************************************)
(* SpecAssign: generate_assignments(text, concepts), on every list of at   *)
(* most MaxConceptList concepts; the text argument is not read.            *)
(***************************************************************************)
MaxConceptList == 3

AssignConcepts == SeqsUpTo({"Plants", "plants", "Nile"}, MaxConceptList)

InitAssign ==
    /\ pc = "generate_assignments"
    /\ NoText
    /\ concepts \in AssignConcepts
    /\ assignments = <<>>
    /\ NoQuiz
    /\ NoDistractors
    /\ result = None

NextAssign == GenerateAssignments

SpecAssign == InitAssign /\ [][NextAssign]_vars

(***************************************************************************)
(* SpecDistractors: generate_distractors(correct_answer, concepts).        *)
(***************************************************************************)
DistractorAnswers == {"Plants", "plants", "Nile", ""}

DistractorConcepts == SeqsUpTo({"Plants", "Nile", "Rome", "None of the above"}, MaxConceptList)

InitDistractors ==
    /\ pc = "generate_distractors"
    /\ NoText
    /\ \/ correct_answer \in DistractorAnswers /\ concepts \in DistractorConcepts
       \/ correct_answer = "Elephant" /\ concepts = <<"Elephant", "Savanna", "Migration">>
    /\ distractors = <<>>
    /\ assignments = <<>>
    /\ NoQuiz
    /\ result = None

NextDistractors == GenerateDistractors

SpecDistractors == InitDistractors /\ [][NextDistractors]_vars

(***************************************************************************)
(* SpecQuiz: generate_quiz_questions(text, concepts), on texts with an     *)
(* empty pool, with one sentence in the pool and with two, and on every    *)
(* list of the first concepts of QuizConceptList, at most MaxQuizConcepts  *)
(* of them.  FairSpecQuiz adds that the call keeps running: nothing but    *)
(* the call itself can stop it.                                            *)
(***************************************************************************)
MaxQuizConcepts == 2

QuizTexts ==
    { "",
      "this is a test.",
      "it is so, because of us.",
      "Plants, feed on Plants.",
      "plant eats plants daily",
      "it is so and so on ,,,,,",
      "Plants, feed on Plants! this is a test? Plants, feed on Plants" }

QuizConceptList == <<"Not plants", "Nile", "Plants">>

\* the lists of the first n concepts of QuizConceptList, n up to MaxQuizConcepts
QuizConcepts ==
    {Take(QuizConceptList, n) : n \in 0..Min(MaxQuizConcepts, Len(QuizConceptList))}

InitQuiz ==
    /\ pc = "generate_quiz_questions"
    /\ input_text = ""
    /\ text \in QuizTexts
    /\ concepts \in QuizConcepts
    /\ assignments = <<>>
    /\ NoQuiz
    /\ NoDistractors
    /\ result = None

NextQuiz ==
    \/ QuizBegin
    \/ QuizAttempt
    \/ QuizFill

SpecQuiz == InitQuiz /\ [][NextQuiz]_vars

FairSpecQuiz == SpecQuiz /\ WF_vars(NextQuiz)

(***************************************************************************)
(* Properties.                                                             *)
(***************************************************************************)
FromSentence == "create_multiple_choice_question"
FromFallback == "create_generic_question"

QuizReturned == pc \in {"return", "done"}

\* the 0-based position a letter names: A=0, B=1, C=2, D=3
LetterPosition(letter) == CHOOSE i \in 0..3 : Ch("ABCD", i + 1) = letter

WellFormed(q) ==
    /\ DOMAIN q = {"question", "options", "correct_answer", "correct_text"}
    /\ Len(q.options) = 4
    /\ q.correct_answer \in {"A", "B", "C", "D"}
    /\ q.options[LetterPosition(q.correct_answer) + 1] = q.correct_text

\* C1: generate_quiz_questions returns exactly 3 records, and every record, made from
\* a sentence or by the fallback, has 4 options, a letter A-D, and correct_text at
\* the position the letter names.
C1_QuizWellFormed ==
    /\ \A i \in 1..Len(questions) : WellFormed(questions[i])
    /\ QuizReturned => Len(questions) = 3

\* a returned quiz with a sentence question whose answer was shuffled to D, a
\* duplicated option, and a fallback question
C1_Witness ==
    /\ pc = "return"
    /\ \E i \in 1..Len(questions) :
         /\ origin[i] = FromSentence
         /\ questions[i].correct_answer = "D"
         /\ Cardinality(Range(questions[i].options)) < 4
    /\ \E j \in 1..Len(questions) : origin[j] = FromFallback

\* a text of whitespace only
IsBlank(s) == \A i \in 1..Len(s) : Ch(s, i) \in Whitespace

BlankResult ==
    LET fallback == [ question       |-> "Based on the provided material, which statement is most accurate?",
                      options        |-> << "The content presents a clear argument",
                                            "The content lacks supporting evidence",
                                            "The content is purely descriptive",
                                            "The content is contradictory" >>,
                      correct_answer |-> "A",
                      correct_text   |-> "The content presents a clear argument" ]
    IN  [ assignments    |-> << FallbackAssignment1, FallbackAssignment2 >>,
          quiz_questions |-> << fallback, fallback, fallback >>,
          concepts_found |-> <<>> ]

\* C2: generate_content on an empty or whitespace-only text never stops before its
\* return statement (nothing raises), and returns no concepts, the two fixed
\* fallback assignments and three fallback questions with correct_answer 'A'.
C2_BlankInput ==
    IsBlank(input_text) =>
        /\ pc # "done" => ENABLED Next
        /\ pc = "done" =>
             /\ result = Some(BlankResult)
             /\ \A i \in 1..Len(origin) : origin[i] = FromFallback

C2_Witness == pc = "done" /\ input_text = " \n" /\ result # None

ExtractReturned == pc = "generate_assignments"

\* C3: extract_key_concepts returns at most 10 entries, each longer than 3
\* characters, no two the same string, and none for the empty text.
C3_ConceptSet ==
    ExtractReturned =>
        /\ Len(concepts) <= 10
        /\ \A i \in 1..Len(concepts) : Len(concepts[i]) > 3
        /\ \A i, j \in 1..Len(concepts) : i # j => concepts[i] # concepts[j]
        /\ text = "" => concepts = <<>>

\* a text with more than 10 different capitalised words, cut to 10 concepts
C3_Witness ==
    /\ ExtractReturned
    /\ Cardinality(Range(SentenceWords(text))) > 10
    /\ Len(concepts) = 10

AssignReturned == pc = "generate_quiz_questions"

NamesBoth(a, x, y) ==
    a = "Compare and contrast " \o x \o " and " \o y
        \o ". Discuss how these concepts relate to each other and their importance in the overall context."

\* C4: generate_assignments returns exactly 2 non-empty strings; the first is the
\* fixed fallback sentence exactly when there is no concept; the second is the fixed
\* fallback sentence exactly when there are fewer than 2 concepts, and otherwise
\* names, lowercased, the concepts at two different positions.
C4_Assignments ==
    AssignReturned =>
        /\ Len(assignments) = 2
        /\ assignments[1] # "" /\ assignments[2] # ""
        /\ assignments[1] = FallbackAssignment1 <=> concepts = <<>>
        /\ assignments[2] = FallbackAssignment2 <=> Len(concepts) < 2
        /\ Len(concepts) >= 2 =>
             \E i, j \in 1..Len(concepts) :
                 i # j /\ NamesBoth(assignments[2], Lower(concepts[i]), Lower(concepts[j]))

C4_Witness ==
    /\ AssignReturned
    /\ concepts = <<"Plants", "Nile">>
    /\ NamesBoth(assignments[2], "nile", "plants")

DistractorsReturned == pc = "distractors_returned"

\* the positions of the concepts that differ from the answer, case ignored
OtherPositions == {p \in 1..Len(concepts) : Lower(concepts[p]) # Lower(correct_answer)}

\* the i-th smallest element of a set of positions
Nth(S, i) == CHOOSE p \in S : Cardinality({r \in S : r < p}) = i - 1

\* C5: generate_distractors returns exactly 3 strings: first, in ConceptSet order,
\* the first (up to 2) concepts that differ from the answer with case ignored, then
\* "Not x", "Opposite of x" and "None of the above" (x the lowercased answer), in
\* that order, in the slots that are left; no concept-derived distractor equals the
\* answer with case ignored.
C5_Distractors ==
    DistractorsReturned =>
        LET k == Min(2, Cardinality(OtherPositions))
            generic == << "Not " \o Lower(correct_answer),
                          "Opposite of " \o Lower(correct_answer),
                          "None of the above" >>
        IN  /\ Len(distractors) = 3
            /\ \A i \in 1..k :
                 /\ distractors[i] = concepts[Nth(OtherPositions, i)]
                 /\ Lower(distractors[i]) # Lower(correct_answer)
            /\ \A i \in (k + 1)..3 : distractors[i] = generic[i - k]

\* the example of the specification
C5_Witness ==
    /\ DistractorsReturned
    /\ correct_answer = "Elephant"
    /\ concepts = <<"Elephant", "Savanna", "Migration">>
    /\ distractors = <<"Savanna", "Migration", "Not elephant">>

QuizDone == pc = "return"

\* C6: the builder is called at most 2 x pool_size times, the pool being the
\* trimmed segments longer than 20 characters; every call is one attempt, whatever
\* its outcome; no call is made once 3 questions are accepted; the call of
\* generate_quiz_questions returns; with an empty pool no call is made and all 3
\* questions come from the fallback.
C6_BoundedAttempts ==
    /\ [](/\ calls = attempts
          /\ calls <= 2 * Len(SentencePool(text))
          /\ (QuizDone /\ SentencePool(text) = <<>>) =>
                /\ calls = 0
                /\ Len(questions) = 3
                /\ \A i \in 1..Len(origin) : origin[i] = FromFallback)
    /\ [][calls' # calls => /\ Len(questions) < 3
                            /\ calls' = calls + 1
                            /\ attempts' = attempts + 1]_vars
    /\ <>QuizDone

\* a return after every allowed attempt of a two-sentence pool was used, one of
\* them without a new question
C6_Witness ==
    /\ QuizDone
    /\ Len(sentences) = 2
    /\ calls = 4
    /\ \E i \in 1..Len(origin) : origin[i] = FromFallback

\* the questions accepted from sentences
SentenceQuestions == {i \in 1..Len(questions) : origin[i] = FromSentence}

\* C7: in the main loop a built question equal in all four fields to an accepted
\* one is discarded, and so is a failed construction: the accepted sentence
\* questions are pairwise different records, and none of them is None.
C7_NoDuplicates ==
    /\ [](/\ \A i, j \in SentenceQuestions : i # j => questions[i] # questions[j]
          /\ \A i \in SentenceQuestions : DOMAIN questions[i] # DOMAIN None)
    /\ [][(calls' # calls /\ (question' = None \/ question'[1] \in Range(questions)))
             => questions' = questions]_vars

\* the only sentence of the pool always yields a question, so the second of two
\* attempts that left one question built a duplicate
C7_Witness ==
    /\ text = "Plants, feed on Plants."
    /\ attempts = 2
    /\ Len(questions) = 1
    /\ question # None
    /\ question[1] \in Range(questions)

RECURSIVE CountFrom(_, _, _)
CountFrom(s, sub, i) ==
    LET j == NextOccurrence(s, sub, i)
    IN  IF j > Len(s) THEN 0 ELSE 1 + CountFrom(s, sub, j + Len(sub))

\* str.count(sub): the non-overlapping occurrences of sub in s
CountOf(s, sub) == IF sub = "" THEN Len(s) + 1 ELSE CountFrom(s, sub, 1)

\* C8, as the specification states it: only the first textual occurrence of the
\* answer is replaced by the blank marker, a later one is left unchanged.
C8_FirstOccurrenceOnly ==
    question # None =>
        question[1].question = ReplaceFirst(sentence, question[1].correct_text, BlankMarker)

\* C8, amended: every occurrence of the answer in the sentence, scanning from the
\* left and not overlapping, is replaced by the blank marker: there are as many
\* markers as occurrences, none of a non-empty answer is left, and putting the answer
\* back for every marker gives the sentence.  (No input holds an underscore.)
C8_EveryOccurrence ==
    question # None =>
        LET q == question[1]
        IN  /\ CountOf(q.question, BlankMarker) = CountOf(sentence, q.correct_text)
            /\ q.correct_text # "" => ~Contains(q.question, q.correct_text)
            /\ Replace(q.question, BlankMarker, q.correct_text) = sentence

\* a sentence with two occurrences of the answer, both blanked
C8_Witness ==
    /\ question # None
    /\ sentence = "Plants, feed on Plants"
    /\ question[1].correct_text = "Plants"
    /\ question[1].question = "______, feed on ______"

AlternativeFormats(s) ==
    { mc_starters[st] \o " mentioned in the following context: '" \o Prefix(s, 50) \o "...'?" :
        st \in 1..Len(mc_starters) }

\* C9: whenever create_multiple_choice_question returns a record, its question text
\* holds the blank marker, and is never the templated alternative question.
C9_AlwaysBlanked ==
    question # None =>
        /\ Contains(question[1].question, BlankMarker)
        /\ question[1].question \notin AlternativeFormats(sentence)

\* an answer that is no token of the sentence: stripping the punctuation changed it
C9_Witness ==
    /\ question # None
    /\ question[1].correct_text \notin Range(Split(sentence))
    /\ Contains(question[1].question, BlankMarker)

\* C10: in every result of generate_content the 4 options of every quiz question
\* are pairwise distinct, so correct_text is at exactly one position, the one
\* correct_answer names.
C10_DistinctOptions ==
    \A i \in 1..Len(questions) :
        LET q == questions[i]
        IN  /\ Cardinality(Range(q.options)) = 4
            /\ {p \in 1..Len(q.options) : q.options[p] = q.correct_text}
                 = {LetterPosition(q.correct_answer) + 1}

\* a result with a sentence question whose answer is itself a concept and whose
\* options hold another concept
C10_Witness ==
    /\ pc = "done"
    /\ result[1].quiz_questions = questions
    /\ \E i \in 1..Len(questions) :
         /\ origin[i] = FromSentence
         /\ questions[i].correct_text \in Range(concepts)
         /\ \E c \in Range(concepts) :
              c # questions[i].correct_text /\ c \in Range(questions[i].options)

=============================================================================
